---- MODULE Spec2Model ----
(***************************************************************************)
(* Model of src/app.js: the six simulation Sessions (projectile, pendulum, *)
(* spring, circular, collision, electric), the controller that creates and *)
(* replaces them (loadSimulation / restartSim and the button handlers) and *)
(* the animation-frame scheduler that runs their tick callbacks.           *)
(*                                                                         *)
(* Numbers are fixed point.  Units:                                        *)
(*   time t                      1/1000 s       (dt = 0.016 s = 16)        *)
(*   g                           1/100 m/s^2    (9.81 = 981)               *)
(*   pendulum length, masses     1/10                                      *)
(*   theta0, x0                  1/100          (slider step 0.01)         *)
(*   theta, omega, x, v          1/1000000                                 *)
(*   angularSpeed, e             1/100                                     *)
(*   circular angle              1/100000 rad                              *)
(*   v1, v2, q1, q2              1/10           (slider step 0.1)          *)
(*   ball positions              1/500 px                                  *)
(*   ball velocities             1/100 px/s                                *)
(***************************************************************************)
EXTENDS Integers, Sequences, FiniteSets, TLC

VARIABLES
  sessions,      \* every Session object created so far; index = identity
  params,        \* every ParameterSet object p created by loadSimulation
  active,        \* activeSimInstance: index into sessions, 0 = null
  activeSimKey,  \* activeSimKey
  selValue,      \* sel.value of the scenario <select>
  pauseLabel,    \* pauseBtn.textContent
  budget,        \* exploration budget: frames and UI events still allowed
  chart          \* the analytic page opened by the Graph button; sim = "none": not opened

vars == <<sessions, params, active, activeSimKey, selValue, pauseLabel, budget, chart>>

(* ---------------- bounds of the exploration ---------------- *)
MaxFrames == 3
MaxUIOps == 3
LongFrames == 240
LongUIOps == 2
LongUICost == 119

(* Ticks of the resolver taken from each drawn state. *)
ResolverFrames == 2

(* Frames and UI events of the runs under a fair frame scheduler. *)
FairFrames == 3
FairUIOps == 2

(* ---------------- program constants ---------------- *)
dtMs == 16
maxTrace == 120
pxScale == 20
CanvasW == 300
CanvasH == 360

Kinds == {"projectile", "pendulum", "spring", "circular", "collision", "electric"}

Abs(n) == IF n < 0 THEN -n ELSE n
Min(a, b) == IF a < b THEN a ELSE b
Max(a, b) == IF a > b THEN a ELSE b

simParamsPreset(key) ==
  CASE key = "projectile" -> [speed |-> 25, angle |-> 45, g |-> 981]
    [] key = "pendulum"   -> [length |-> 16, theta0 |-> 50, g |-> 981]
    [] key = "spring"     -> [k |-> 50, m |-> 15, x0 |-> 60]
    [] key = "circular"   -> [radius |-> 100, angularSpeed |-> 120]
    [] key = "collision"  -> [m1 |-> 20, m2 |-> 10, v1 |-> 30, v2 |-> -10,
                              r1 |-> 20, r2 |-> 20, e |-> 100]
    [] key = "electric"   -> [q1 |-> 30, q2 |-> -30]

(* Slider inputs explored per scenario: <<parameter, value>>, each inside  *)
(* the range and on the step of the makeRange call that creates it.        *)
SliderInputs(key) ==
  CASE key = "projectile" -> {<<"speed", 40>>, <<"angle", 0>>}
    [] key = "pendulum"   -> {<<"length", 10>>, <<"theta0", -30>>}
    [] key = "spring"     -> {<<"k", 100>>, <<"x0", -50>>}
    [] key = "circular"   -> {<<"radius", 60>>, <<"angularSpeed", 300>>}
    [] key = "collision"  -> {<<"v1", 100>>, <<"v2", 0>>, <<"e", 0>>}
    [] key = "electric"   -> {<<"q1", 0>>, <<"q2", 45>>}

(* Fixed-point division, rounded to the nearest unit (b > 0). *)
RoundDiv(a, b) ==
  LET n == Abs(a)
      q == (n \div b) + (IF 2 * (n % b) >= b THEN 1 ELSE 0)
  IN IF a >= 0 THEN q ELSE -q

RECURSIVE SqrtSearch(_, _, _)
SqrtSearch(n, lo, hi) ==
  IF lo >= hi THEN lo
  ELSE LET mid == (lo + hi + 1) \div 2
       IN IF mid * mid <= n THEN SqrtSearch(n, mid, hi) ELSE SqrtSearch(n, lo, mid - 1)

(* Math.hypot on fixed-point arguments (integer square root). *)
Hypot(dx, dy) == SqrtSearch(dx * dx + dy * dy, 0, Abs(dx) + Abs(dy))

(* ======================= projectileSim ======================= *)
projectileSim(pid, P) ==
  [kind |-> "projectile", p |-> pid, running |-> TRUE, pending |-> 1,
   st |-> [t |-> 0], lastOp |-> "new", late |-> 0]

projectileStep(s, P) == [s EXCEPT !.st.t = @ + dtMs]

projectileStart(s, P) ==
  [s EXCEPT !.st.t = 0, !.running = TRUE, !.pending = @ + 1]

projectilePause(s) == [s EXCEPT !.running = FALSE]

projectileReset(s, P) == [s EXCEPT !.st.t = 0]

(* ======================= pendulumSim ======================= *)
pendulumSim(pid, P) ==
  [kind |-> "pendulum", p |-> pid, running |-> TRUE, pending |-> 1,
   st |-> [theta |-> P.theta0 * 10000, omega |-> 0, t |-> 0],
   lastOp |-> "new", late |-> 0]

pendulumStep(s, P) ==
  LET alpha == -RoundDiv(P.g * s.st.theta, 10 * P.length)
      omega == s.st.omega + RoundDiv(alpha * dtMs, 1000)
      theta == s.st.theta + RoundDiv(omega * dtMs, 1000)
  IN [s EXCEPT !.st = [theta |-> theta, omega |-> omega, t |-> s.st.t + dtMs]]

(* start(){}, pause(){}, reset(){} of the returned object are empty. *)
pendulumStart(s, P) == s
pendulumPause(s) == s
pendulumReset(s, P) == s

(* ======================= springSim ======================= *)
springSim(pid, P) ==
  [kind |-> "spring", p |-> pid, running |-> TRUE, pending |-> 1,
   st |-> [x |-> P.x0 * 10000, v |-> 0, t |-> 0],
   lastOp |-> "new", late |-> 0]

springStep(s, P) ==
  LET a == -RoundDiv(10 * P.k * s.st.x, P.m)
      v == s.st.v + RoundDiv(a * dtMs, 1000)
      x == s.st.x + RoundDiv(v * dtMs, 1000)
  IN [s EXCEPT !.st = [x |-> x, v |-> v, t |-> s.st.t + dtMs]]

springStart(s, P) == s
springPause(s) == s
springReset(s, P) == s

(* ======================= circularSim ======================= *)
circularSim(pid, P) ==
  [kind |-> "circular", p |-> pid, running |-> TRUE, pending |-> 1,
   st |-> [angle |-> 0, trace |-> << >>, hist |-> << >>],
   lastOp |-> "new", late |-> 0]

(* A push that never evicts the oldest entry. *)
tracePushNoShift(trace, pt) == Append(trace, pt)

(* A push that drops the newest entry (pop) instead of the oldest. *)
tracePushPop(trace, pt) ==
  IF Len(trace) >= maxTrace THEN trace ELSE Append(trace, pt)

(* trace.push({x,y}); if(trace.length > maxTrace) trace.shift(); *)
tracePush(trace, pt) ==
  LET pushed == Append(trace, pt)
  IN IF Len(pushed) > maxTrace THEN Tail(pushed) ELSE pushed

(* draw(): the point on the circle, in polar form <<r, angle>> (the code   *)
(* stores cx + r cos(angle), cy + r sin(angle)), appended to the trace.    *)
(* hist is a history field: every point drawn since the trace was last     *)
(* emptied, in the order drawn.                                            *)
circularDraw(st, P) ==
  LET r == Max(20, Min(Min(CanvasW, CanvasH) \div 2 - 40, P.radius))
      pt == [r |-> r, angle |-> st.angle]
  IN [st EXCEPT !.trace = tracePush(@, pt), !.hist = Append(@, pt)]

circularStep(s, P) ==
  [s EXCEPT !.st = circularDraw([s.st EXCEPT !.angle = @ + P.angularSpeed * dtMs], P)]

circularStart(s, P) == [s EXCEPT !.running = TRUE, !.pending = @ + 1]

circularPause(s) == [s EXCEPT !.running = FALSE]

circularReset(s, P) ==
  [s EXCEPT !.st = circularDraw([angle |-> 0, trace |-> << >>, hist |-> << >>], P)]

(* ======================= collisionSim ======================= *)
(* params.r1 || 20 : a falsy (zero) parameter is replaced by the default. *)
OrDefault(v, d) == IF v = 0 THEN d ELSE v

placeInitial(st, P) ==
  [st EXCEPT
     !.ball1 = [x |-> (CanvasW * 500) \div 4, y |-> (CanvasH * 500) \div 2,
                vx |-> OrDefault(P.v1, 0) * pxScale * 10, vy |-> 0,
                m |-> P.m1, r |-> OrDefault(P.r1, 20) * 500],
     !.ball2 = [x |-> (CanvasW * 500 * 3) \div 4, y |-> (CanvasH * 500) \div 2,
                vx |-> OrDefault(P.v2, 0) * pxScale * 10, vy |-> 0,
                m |-> P.m2, r |-> OrDefault(P.r2, 20) * 500]]

collisionSim(pid, P) ==
  [kind |-> "collision", p |-> pid, running |-> TRUE, pending |-> 1,
   st |-> placeInitial(
            [ball1 |-> [x |-> 0, y |-> 0, vx |-> 0, vy |-> 0,
                        m |-> OrDefault(P.m1, 20), r |-> OrDefault(P.r1, 20) * 500],
             ball2 |-> [x |-> 0, y |-> 0, vx |-> 0, vy |-> 0,
                        m |-> OrDefault(P.m2, 10), r |-> OrDefault(P.r2, 20) * 500],
             nan |-> FALSE, hit |-> FALSE], P),
   lastOp |-> "new", late |-> 0]

(* b.x += b.vx * dt; b.y += b.vy * dt *)
integrate(b) ==
  [b EXCEPT !.x = @ + RoundDiv(b.vx * dtMs, 200), !.y = @ + RoundDiv(b.vy * dtMs, 200)]

(* The four wall tests of one ball, in the order of the code. *)
wallBounce(b) ==
  LET W == CanvasW * 500
      H == CanvasH * 500
      b1 == IF b.x - b.r < 0 THEN [b EXCEPT !.x = b.r, !.vx = -@] ELSE b
      b2 == IF b1.x + b1.r > W THEN [b1 EXCEPT !.x = W - b1.r, !.vx = -@] ELSE b1
      b3 == IF b2.y - b2.r < 0 THEN [b2 EXCEPT !.y = b2.r, !.vy = -@] ELSE b2
      b4 == IF b3.y + b3.r > H THEN [b3 EXCEPT !.y = H - b3.r, !.vy = -@] ELSE b3
  IN b4

(* The restitution used as supplied, without the clamp. *)
restitutionNoClamp(P) == P.e

(* const e = Math.max(0, Math.min(1, params.e!==undefined?params.e:1)) *)
restitution(P) == Max(0, Min(100, P.e))

(* Integration and wall bounce of both balls: the part of update() that    *)
(* runs before the pair check.                                             *)
afterWalls(st) ==
  [st EXCEPT !.ball1 = wallBounce(integrate(@)), !.ball2 = wallBounce(integrate(@))]

(* dx, dy, the collision normal (nx, ny) in 1/1000 and the normal and      *)
(* tangential velocity components of both balls; dist > 0.                 *)
projections(st, dist) ==
  LET a == st.ball1
      b == st.ball2
      nx == RoundDiv((b.x - a.x) * 1000, dist)
      ny == RoundDiv((b.y - a.y) * 1000, dist)
      tx == -ny
      ty == nx
  IN [nx |-> nx, ny |-> ny, tx |-> tx, ty |-> ty,
      v1n |-> RoundDiv(a.vx * nx + a.vy * ny, 1000),
      v1t |-> RoundDiv(a.vx * tx + a.vy * ty, 1000),
      v2n |-> RoundDiv(b.vx * nx + b.vy * ny, 1000),
      v2t |-> RoundDiv(b.vx * tx + b.vy * ty, 1000)]

(* The v2n' numerator with m2 where the code has m1. *)
normalNum2SwappedMass(m1, m2, e, v1n, v2n) ==
  100 * (m1 * v1n + m2 * v2n) + m2 * e * (v1n - v2n)

(* v1n' = (m1*v1n + m2*v2n + m2*e*(v2n - v1n)) / (m1 + m2)                  *)
(* v2n' = (m1*v1n + m2*v2n + m1*e*(v1n - v2n)) / (m1 + m2)                  *)
(* as numerator and denominator, e in 1/100.                               *)
normalNum1(m1, m2, e, v1n, v2n) ==
  100 * (m1 * v1n + m2 * v2n) + m2 * e * (v2n - v1n)

normalNum2(m1, m2, e, v1n, v2n) ==
  100 * (m1 * v1n + m2 * v2n) + m1 * e * (v1n - v2n)

normalDen(m1, m2) == 100 * (m1 + m2)

(* A positional correction of a quarter of the overlap. *)
pushApartQuarter(n, overlap) == RoundDiv(n * overlap, 4000)

(* n * correction, correction = overlap / 2, n in 1/1000. *)
pushApart(n, overlap) == RoundDiv(n * overlap, 2000)

(* Velocity resolution and positional correction of an overlapping pair;   *)
(* dist = 0 makes nx, ny and everything computed from them NaN.            *)
resolvePair(st, P, dist) ==
  IF dist = 0 THEN [st EXCEPT !.nan = TRUE]
  ELSE
    LET a == st.ball1
        b == st.ball2
        pr == projections(st, dist)
        e == restitution(P)
        v1nPrime == RoundDiv(normalNum1(a.m, b.m, e, pr.v1n, pr.v2n), normalDen(a.m, b.m))
        v2nPrime == RoundDiv(normalNum2(a.m, b.m, e, pr.v1n, pr.v2n), normalDen(a.m, b.m))
        overlap == (a.r + b.r) - dist
    IN [st EXCEPT
          !.ball1 = [a EXCEPT !.vx = RoundDiv(v1nPrime * pr.nx + pr.v1t * pr.tx, 1000),
                              !.vy = RoundDiv(v1nPrime * pr.ny + pr.v1t * pr.ty, 1000),
                              !.x = @ - pushApart(pr.nx, overlap),
                              !.y = @ - pushApart(pr.ny, overlap)],
          !.ball2 = [b EXCEPT !.vx = RoundDiv(v2nPrime * pr.nx + pr.v2t * pr.tx, 1000),
                              !.vy = RoundDiv(v2nPrime * pr.ny + pr.v2t * pr.ty, 1000),
                              !.x = @ + pushApart(pr.nx, overlap),
                              !.y = @ + pushApart(pr.ny, overlap)]]

(* Math.hypot(dx, dy) of the two centers when it can be at most r1 + r2,   *)
(* and r1 + r2 + 1 (no contact) when |dx| or |dy| alone exceeds r1 + r2.   *)
centerDist(st) ==
  LET dx == st.ball2.x - st.ball1.x
      dy == st.ball2.y - st.ball1.y
      rsum == st.ball1.r + st.ball2.r
  IN IF Abs(dx) > rsum \/ Abs(dy) > rsum THEN rsum + 1 ELSE Hypot(dx, dy)

(* update(dt): integration, wall bounce, pair check.  hit is a history     *)
(* field: the pair branch ran in this update.  Once the numbers are NaN    *)
(* every comparison is false and nothing changes any more.                 *)
update(st, P) ==
  LET moved == afterWalls(st)
      dist == centerDist(moved)
  IN IF st.nan THEN [st EXCEPT !.hit = FALSE]
     ELSE IF dist <= moved.ball1.r + moved.ball2.r
            THEN [resolvePair(moved, P, dist) EXCEPT !.hit = TRUE]
            ELSE [moved EXCEPT !.hit = FALSE]

collisionStep(s, P) == [s EXCEPT !.st = update(@, P)]

collisionStart(s, P) ==
  [s EXCEPT !.running = TRUE, !.st = placeInitial(@, P), !.pending = @ + 1]

collisionPause(s) == [s EXCEPT !.running = FALSE]

collisionReset(s, P) ==
  [s EXCEPT !.st = placeInitial(@, P), !.running = TRUE, !.pending = @ + 1]

(* ======================= electricSim ======================= *)
placeCharges(P) ==
  << [x |-> CanvasW * 33, y |-> CanvasH * 50, q |-> OrDefault(P.q1, 30)],
     [x |-> CanvasW * 67, y |-> CanvasH * 50, q |-> OrDefault(P.q2, -30)] >>

(* start() runs at construction: placeCharges, running = true, timer(). *)
electricSim(pid, P) ==
  [kind |-> "electric", p |-> pid, running |-> TRUE, pending |-> 1,
   st |-> [charges |-> placeCharges(P)], lastOp |-> "new", late |-> 0]

(* timer(): drawField() only redraws; the charges are not changed. *)
electricStep(s, P) == s

electricStart(s, P) ==
  [s EXCEPT !.st.charges = placeCharges(P), !.running = TRUE, !.pending = @ + 1]

electricPause(s) == [s EXCEPT !.running = FALSE]

electricReset(s, P) == [s EXCEPT !.st.charges = placeCharges(P)]

(* ======================= the uniform Session API ======================= *)
(* lastOp and late are history fields: the last API call or tick of the    *)
(* Session, and the number of ticks it ran while it was not the active one.*)
newSim(key, pid, P) ==
  CASE key = "projectile" -> projectileSim(pid, P)
    [] key = "pendulum"   -> pendulumSim(pid, P)
    [] key = "spring"     -> springSim(pid, P)
    [] key = "circular"   -> circularSim(pid, P)
    [] key = "collision"  -> collisionSim(pid, P)
    [] key = "electric"   -> electricSim(pid, P)

simStep(s, P) ==
  CASE s.kind = "projectile" -> projectileStep(s, P)
    [] s.kind = "pendulum"   -> pendulumStep(s, P)
    [] s.kind = "spring"     -> springStep(s, P)
    [] s.kind = "circular"   -> circularStep(s, P)
    [] s.kind = "collision"  -> collisionStep(s, P)
    [] s.kind = "electric"   -> electricStep(s, P)

simStart(s, P) ==
  CASE s.kind = "projectile" -> projectileStart(s, P)
    [] s.kind = "pendulum"   -> pendulumStart(s, P)
    [] s.kind = "spring"     -> springStart(s, P)
    [] s.kind = "circular"   -> circularStart(s, P)
    [] s.kind = "collision"  -> collisionStart(s, P)
    [] s.kind = "electric"   -> electricStart(s, P)

simPause(s) ==
  CASE s.kind = "projectile" -> projectilePause(s)
    [] s.kind = "pendulum"   -> pendulumPause(s)
    [] s.kind = "spring"     -> springPause(s)
    [] s.kind = "circular"   -> circularPause(s)
    [] s.kind = "collision"  -> collisionPause(s)
    [] s.kind = "electric"   -> electricPause(s)

simReset(s, P) ==
  CASE s.kind = "projectile" -> projectileReset(s, P)
    [] s.kind = "pendulum"   -> pendulumReset(s, P)
    [] s.kind = "spring"     -> springReset(s, P)
    [] s.kind = "circular"   -> circularReset(s, P)
    [] s.kind = "collision"  -> collisionReset(s, P)
    [] s.kind = "electric"   -> electricReset(s, P)

callStart(s, P) == [simStart(s, P) EXCEPT !.lastOp = "start"]
callPause(s) == [simPause(s) EXCEPT !.lastOp = "pause"]
callReset(s, P) == [simReset(s, P) EXCEPT !.lastOp = "reset"]

(* ======================= animation frames ======================= *)
RECURSIVE stepTimes(_, _, _)
stepTimes(s, P, n) == IF n = 0 THEN s ELSE stepTimes(simStep(s, P), P, n - 1)

(* A tick callback that steps the Session without requesting a frame. *)
runCallbacksNoRequest(s, P, isActive) ==
  IF s.pending = 0 THEN s
  ELSE IF ~s.running THEN [s EXCEPT !.pending = 0]
  ELSE [stepTimes(s, P, s.pending) EXCEPT !.lastOp = "tick", !.pending = 0]

(* One animation frame for one Session: each callback queued by            *)
(* requestAnimationFrame runs once; a callback that finds running = false  *)
(* returns without requesting another frame, one that finds it true steps  *)
(* the Session and requests the next frame.                                *)
runCallbacks(s, P, isActive) ==
  IF s.pending = 0 THEN s
  ELSE IF ~s.running THEN [s EXCEPT !.pending = 0]
  ELSE [stepTimes(s, P, s.pending) EXCEPT
          !.lastOp = "tick",
          !.late = IF isActive THEN @ ELSE @ + s.pending]

(* ======================= the controller ======================= *)
(* if(activeSimInstance && activeSimInstance.reset) activeSimInstance.reset() *)
resetActive(ss, ps, act) ==
  IF act = 0 THEN ss ELSE [ss EXCEPT ![act] = callReset(@, ps[@.p])]

(* restartSim() of the closure whose ParameterSet object is ps[pid]. *)
restartSim(ss, ps, act, key, pid) ==
  Append(resetActive(ss, ps, act), newSim(key, pid, ps[pid]))

loadSimulation(ss, ps, act, key) ==
  LET ss1 == resetActive(ss, ps, act)
      ps1 == Append(ps, simParamsPreset(key))
  IN [sessions |-> restartSim(ss1, ps1, act, key, Len(ps1)),
      params |-> ps1,
      active |-> Len(ss1) + 1,
      activeSimKey |-> key]

(* ======================= the Graph button and graph.html ======================= *)
(* The model's units of one parameter: how many of them make 1.            *)
unitsPerOne(key, name) ==
  CASE key = "pendulum" /\ name = "length" -> 10
    [] key = "pendulum" /\ name = "theta0" -> 100
    [] key = "spring" /\ name = "m" -> 10
    [] key = "spring" /\ name = "x0" -> 100
    [] key = "circular" /\ name = "angularSpeed" -> 100
    [] key = "collision" /\ name = "e" -> 100
    [] key = "collision" -> 10
    [] key = "electric" -> 10
    [] OTHER -> 1

(* The slider inputs the click handler reads, inputs[0], inputs[1], ...    *)
graphFields(key) ==
  CASE key = "projectile" -> {"speed", "angle"}
    [] key = "pendulum"   -> {"length", "theta0"}
    [] key = "spring"     -> {"k", "x0"}
    [] key = "circular"   -> {"radius", "angularSpeed"}
    [] key = "collision"  -> {"m1", "m2", "v1", "v2", "e"}
    [] key = "electric"   -> {"q1", "q2"}

(* rng.value: the decimal string of the slider's number, as sign, whole    *)
(* part and fraction digits; paramURL and URLSearchParams carry it over    *)
(* unchanged (digits, '-' and '.' are not escaped).                        *)
inputValue(v, units) ==
  [neg |-> v < 0, whole |-> Abs(v) \div units, frac |-> Abs(v) % units]

(* parseFloat(params.<name>): NaN for a field the query does not have. *)
parseFloat(q, name, units) ==
  IF name \in DOMAIN q
    THEN [nan |-> FALSE,
          num |-> (IF q[name].neg THEN -1 ELSE 1) * (q[name].whole * units + q[name].frac)]
    ELSE [nan |-> TRUE, num |-> 0]

(* parseFloat(params.<name>) || d : NaN and 0 are falsy. *)
parseOr(q, key, name, d) ==
  LET x == parseFloat(q, name, unitsPerOne(key, name))
  IN IF x.nan \/ x.num = 0 THEN d ELSE x.num

(* v1p and v2p of the collision branch, in 1/2000 m/s (the unit in which   *)
(* the live resolver, at pxScale px per m, holds its 1/100 px/s).          *)
analyticCollision(m1, m2, u1, u2, e) ==
  [v1p |-> RoundDiv(normalNum1(m1, m2, e, u1 * pxScale * 10, u2 * pxScale * 10),
                    normalDen(m1, m2)),
   v2p |-> RoundDiv(normalNum2(m1, m2, e, u1 * pxScale * 10, u2 * pxScale * 10),
                    normalDen(m1, m2))]

(* The values the analytic page evaluates for the query q. *)
analytic(key, q) ==
  CASE key = "projectile" ->
         [u |-> parseOr(q, key, "speed", 25), a |-> parseOr(q, key, "angle", 45)]
    [] key = "pendulum" -> [L |-> parseOr(q, key, "length", 16)]
    [] key = "spring" ->
         [k |-> parseOr(q, key, "k", 50), m |-> parseOr(q, key, "m", 15)]
    [] key = "circular" ->
         [radius |-> parseOr(q, key, "radius", 100),
          omega |-> parseOr(q, key, "angularSpeed", 120)]
    [] key = "collision" ->
         LET m1 == parseOr(q, key, "m1", 20)
             m2 == parseOr(q, key, "m2", 10)
             u1 == parseOr(q, key, "v1", 30)
             u2 == parseOr(q, key, "v2", -10)
             e == parseOr(q, key, "e", 100)
             v == analyticCollision(m1, m2, u1, u2, e)
         IN [m1 |-> m1, m2 |-> m2, u1 |-> u1, u2 |-> u2, e |-> e,
             v1p |-> v.v1p, v2p |-> v.v2p]
    [] key = "electric" ->
         [q1 |-> parseOr(q, key, "q1", 30), q2 |-> parseOr(q, key, "q2", -30)]

(* ======================= specification ======================= *)
(* The state after the DOMContentLoaded handler: loadSimulation(sel.value)  *)
(* has run once with activeSimInstance = null.  The page markup decides    *)
(* which option is selected first, so every scenario key is an initial     *)
(* value; both button handlers treat 'Pause' as the label of a running     *)
(* simulation.  budget bounds the run: frames and UI events still allowed, *)
(* and the number of frames a UI event takes from the run's frame budget.  *)
(* Once the Graph button has replaced the page by graph.html no handler    *)
(* and no animation frame of the simulator page runs any more.             *)
InitWith(b) ==
  \E key \in Kinds :
    LET l == loadSimulation(<< >>, << >>, 0, key)
    IN /\ sessions = l.sessions
       /\ params = l.params
       /\ active = l.active
       /\ activeSimKey = l.activeSimKey
       /\ selValue = key
       /\ pauseLabel = "Pause"
       /\ budget = b
       /\ chart = [sim |-> "none"]

Init == InitWith([frames |-> MaxFrames, ui |-> MaxUIOps, uiCost |-> 0])

InitLong == InitWith([frames |-> LongFrames, ui |-> LongUIOps, uiCost |-> LongUICost])

UIEvent ==
  /\ chart.sim = "none"
  /\ budget.ui > 0
  /\ budget.frames >= budget.uiCost
  /\ budget' = [budget EXCEPT !.ui = @ - 1, !.frames = @ - budget.uiCost]

(* window.requestAnimationFrame: all queued callbacks run in one frame. *)
AnimationFrame ==
  /\ chart.sim = "none"
  /\ budget.frames > 0
  /\ \E i \in DOMAIN sessions : sessions[i].pending > 0
  /\ sessions' = [i \in DOMAIN sessions |->
                    runCallbacks(sessions[i], params[sessions[i].p], i = active)]
  /\ budget' = [budget EXCEPT !.frames = @ - 1]
  /\ UNCHANGED <<params, active, activeSimKey, selValue, pauseLabel, chart>>

(* sel 'change' listener *)
SimSelectChange ==
  \E key \in Kinds \ {selValue} :
    LET l == loadSimulation(sessions, params, active, key)
    IN /\ UIEvent
       /\ selValue' = key
       /\ sessions' = l.sessions
       /\ params' = l.params
       /\ active' = l.active
       /\ activeSimKey' = l.activeSimKey
       /\ UNCHANGED <<pauseLabel, chart>>

(* rng.oninput of a slider built by the latest loadSimulation:             *)
(* (v)=>{ p.<name> = v; restartSim(); }                                    *)
SliderInput ==
  \E in \in SliderInputs(activeSimKey) :
    LET pid == Len(params)
        ps1 == [params EXCEPT ![pid] = [@ EXCEPT ![in[1]] = in[2]]]
    IN /\ params[pid][in[1]] # in[2]
       /\ UIEvent
       /\ params' = ps1
       /\ sessions' = restartSim(sessions, ps1, active, activeSimKey, pid)
       /\ active' = Len(sessions) + 1
       /\ UNCHANGED <<activeSimKey, selValue, pauseLabel, chart>>

(* pauseBtn 'click' listener *)
PauseBtnClick ==
  /\ active # 0
  /\ UIEvent
  /\ IF pauseLabel = "Pause"
       THEN /\ sessions' = [sessions EXCEPT ![active] = callPause(@)]
            /\ pauseLabel' = "Resume"
       ELSE /\ sessions' = [sessions EXCEPT ![active] = callStart(@, params[@.p])]
            /\ pauseLabel' = "Pause"
  /\ UNCHANGED <<params, active, activeSimKey, selValue, chart>>

(* resetBtn 'click' listener *)
ResetBtnClick ==
  LET ss1 == resetActive(sessions, params, active)
      l == loadSimulation(ss1, params, active, selValue)
  IN /\ UIEvent
     /\ sessions' = l.sessions
     /\ params' = l.params
     /\ active' = l.active
     /\ activeSimKey' = l.activeSimKey
     /\ pauseLabel' = "Pause"
     /\ UNCHANGED <<selValue, chart>>

(* graphBtn 'click' listener, and graph.html evaluating the query: the     *)
(* sliders are those of the latest loadSimulation and show its p.          *)
GraphBtnClick ==
  LET P == params[Len(params)]
      q == [n \in graphFields(activeSimKey) |->
              inputValue(P[n], unitsPerOne(activeSimKey, n))]
  IN /\ UIEvent
     /\ chart' = [sim |-> activeSimKey, query |-> q, used |-> analytic(activeSimKey, q)]
     /\ UNCHANGED <<sessions, params, active, activeSimKey, selValue, pauseLabel>>

Next ==
  \/ AnimationFrame
  \/ SimSelectChange
  \/ SliderInput
  \/ PauseBtnClick
  \/ ResetBtnClick
  \/ GraphBtnClick

Spec == Init /\ [][Next]_vars

SpecLong == InitLong /\ [][Next]_vars

(* The browser runs the queued requestAnimationFrame callbacks at every     *)
(* frame of a visible page: a frame that is due and stays due is taken.    *)
(* FrameDue is the guard of AnimationFrame, and with uiCost = 0 the steps  *)
(* of Next that lower budget.frames are exactly those of AnimationFrame,   *)
(* so FrameTaken is AnimationFrame seen on budget alone.                   *)
InitFair == InitWith([frames |-> FairFrames, ui |-> FairUIOps, uiCost |-> 0])

FrameDue ==
  /\ chart.sim = "none"
  /\ budget.frames > 0
  /\ \E i \in DOMAIN sessions : sessions[i].pending > 0

FrameTaken == FrameDue /\ budget' = [budget EXCEPT !.frames = @ - 1]

SpecFair == InitFair /\ [][Next]_vars /\ WF_budget(FrameTaken)

(* ======================= the resolver on its own ======================= *)
(* update() as a function of the state it finds: one running collision     *)
(* Session between two ticks, its ParameterSet with masses and restitution  *)
(* drawn from small sets (e also outside [0,1]: update() clamps what the    *)
(* caller of collisionSim supplies), the balls with drawn velocities at     *)
(* positions from which the integration of this tick leaves them           *)
(*   headOn    overlapping, centers on a horizontal line;                  *)
(*   oblique   overlapping, normal (0.6, 0.8);                             *)
(*   apart     not in contact;                                             *)
(*   wallPinch ball2 at the right wall with ball1 in contact behind it, as *)
(*             after an e = 0 collision when the pair reaches the wall;    *)
(*   pushedOut ball2 0.4 px beyond the right wall with ball1 in contact    *)
(*             behind it, as the positional correction of the previous     *)
(*             tick leaves a pair resolved at the wall;                    *)
(*   pastWall  both beyond the right wall, as after resizeCanvas() has     *)
(*             narrowed the canvas.                                        *)
ResolverMasses == {5, 10, 20}

ResolverE == {-30, 0, 50, 100, 150}

ResolverV1x == {-2000, 0, 3000}

ResolverV1y == {0, 1000}

ResolverV2x == {-1000, 0, 2000}

ResolverGeometries ==
  {"headOn", "oblique", "apart", "wallPinch", "pushedOut", "pastWall"}

ResolverBalls(g, m1, m2, v1x, v1y, v2x) ==
  LET r == 20 * 500
      W == CanvasW * 500
      cx == 70000
      cy == (CanvasH * 500) \div 2
      d1x == RoundDiv(v1x * dtMs, 200)
      d1y == RoundDiv(v1y * dtMs, 200)
      d2x == RoundDiv(v2x * dtMs, 200)
      off == CASE g = "headOn"  -> <<19000, 0>>
               [] g = "oblique" -> <<11400, 15200>>
               [] OTHER         -> <<30000, 0>>
      pos == CASE g = "wallPinch" -> <<W - 3 * r - 40, cy, W - r - 40, cy>>
               [] g = "pushedOut" -> <<W - 3 * r + 200, cy, W - r + 200, cy>>
               [] g = "pastWall"  -> <<W - r + 5000, cy, W - r + 30000, cy>>
               [] OTHER -> <<cx - d1x, cy - d1y, cx + off[1] - d2x, cy + off[2]>>
  IN [ball1 |-> [x |-> pos[1], y |-> pos[2], vx |-> v1x, vy |-> v1y, m |-> m1, r |-> r],
      ball2 |-> [x |-> pos[3], y |-> pos[4], vx |-> v2x, vy |-> 0, m |-> m2, r |-> r],
      nan |-> FALSE, hit |-> FALSE]

InitResolver ==
  \E g \in ResolverGeometries, m1 \in ResolverMasses, m2 \in ResolverMasses,
     e \in ResolverE, v1x \in ResolverV1x, v1y \in ResolverV1y, v2x \in ResolverV2x :
    /\ params = << [simParamsPreset("collision") EXCEPT !.m1 = m1, !.m2 = m2, !.e = e] >>
    /\ sessions = << [kind |-> "collision", p |-> 1, running |-> TRUE, pending |-> 1,
                      st |-> ResolverBalls(g, m1, m2, v1x, v1y, v2x),
                      lastOp |-> "tick", late |-> 0] >>
    /\ active = 1
    /\ activeSimKey = "collision"
    /\ selValue = "collision"
    /\ pauseLabel = "Pause"
    /\ budget = [frames |-> ResolverFrames, ui |-> 0, uiCost |-> 0]
    /\ chart = [sim |-> "none"]

NextResolver == AnimationFrame

SpecResolver == InitResolver /\ [][NextResolver]_vars

(* ======================= claims ======================= *)
SessionIds == DOMAIN sessions

(* The state a reset is to restore, from the ParameterSet P: projectile    *)
(* t = 0; pendulum theta = theta0, omega = 0; spring x = x0, v = 0;        *)
(* circular angle = 0 and no trace entry of an earlier frame; collision    *)
(* balls at their initial places with the parameters' velocities, masses   *)
(* and radii; electric charges equal to q1 and q2.                         *)
IsInitialState(s, P) ==
  CASE s.kind = "projectile" -> s.st.t = 0
    [] s.kind = "pendulum"   -> s.st.theta = P.theta0 * 10000 /\ s.st.omega = 0
    [] s.kind = "spring"     -> s.st.x = P.x0 * 10000 /\ s.st.v = 0
    [] s.kind = "circular"   ->
         /\ s.st.angle = 0
         /\ Len(s.st.trace) <= 1
         /\ \A k \in DOMAIN s.st.trace : s.st.trace[k].angle = 0
    [] s.kind = "collision"  ->
         /\ s.st.ball1.x = (CanvasW * 500) \div 4
         /\ s.st.ball2.x = (CanvasW * 500 * 3) \div 4
         /\ s.st.ball1.y = (CanvasH * 500) \div 2
         /\ s.st.ball2.y = (CanvasH * 500) \div 2
         /\ s.st.ball1.vx = P.v1 * pxScale * 10 /\ s.st.ball1.vy = 0
         /\ s.st.ball2.vx = P.v2 * pxScale * 10 /\ s.st.ball2.vy = 0
         /\ s.st.ball1.m = P.m1 /\ s.st.ball2.m = P.m2
         /\ s.st.ball1.r = P.r1 * 500 /\ s.st.ball2.r = P.r2 * 500
    [] s.kind = "electric"   ->
         /\ Len(s.st.charges) = 2
         /\ s.st.charges[1].q = P.q1
         /\ s.st.charges[2].q = P.q2

(* C1: a Session that is not the active one runs at most one more tick:    *)
(* once replaced, its tick scheduling is cancelled, so two Sessions never  *)
(* tick side by side.                                                      *)
C1_ReplacedSessionStops == \A i \in SessionIds : sessions[i].late <= 1

(* C2: after pause() a Session has running = false, and an animation frame *)
(* leaves the simulation state of a paused Session unchanged.              *)
C2_PauseFreezesSession ==
  [][\A i \in SessionIds :
       sessions[i].lastOp = "pause" =>
         /\ ~sessions[i].running
         /\ (AnimationFrame => sessions'[i].st = sessions[i].st)]_vars

(* C3: a Session never has more than one tick callback pending. *)
C3_OnePendingTick == \A i \in SessionIds : sessions[i].pending <= 1

(* C4: Resume (start() on a paused Session whose state has moved away from *)
(* the initial one) leaves the simulation state as it was at pause(), sets *)
(* running = true and schedules a tick.                                    *)
C4_ResumeKeepsState ==
  [][(/\ PauseBtnClick
      /\ pauseLabel = "Resume"
      /\ ~sessions[active].running
      /\ sessions[active].st # newSim(sessions[active].kind, sessions[active].p,
                                      params[sessions[active].p]).st)
     => /\ sessions'[active].st = sessions[active].st
        /\ sessions'[active].running
        /\ sessions'[active].pending >= 1]_vars

(* C5: when reset() has returned the Session is running and has a tick     *)
(* scheduled, whatever its state was before the call.                      *)
C5_ResetLeavesRunning ==
  \A i \in SessionIds :
    sessions[i].lastOp = "reset" => sessions[i].running /\ sessions[i].pending >= 1

(* C6: when reset() has returned the simulation state is the initial state *)
(* derived from the Session's ParameterSet as it is at that moment.        *)
C6_ResetRestoresInitial ==
  \A i \in SessionIds :
    sessions[i].lastOp = "reset" => IsInitialState(sessions[i], params[sessions[i].p])

(* C7: the Reset handler calls reset() on the active Session several times *)
(* in a row with unchanged parameters; the state it leaves is the state    *)
(* after one reset(), a further reset() does not change it, and it is the  *)
(* initial snapshot.                                                       *)
C7_ResetIdempotent ==
  [][ResetBtnClick =>
       LET s == sessions[active]
           P == params[s.p]
           once == simReset(s, P)
       IN /\ sessions'[active].st = once.st
          /\ simReset(once, P).st = once.st
          /\ IsInitialState(once, P)]_vars

(* C8: no two Sessions read the same ParameterSet object, and the object a *)
(* Session that can still tick reads is not changed in place.              *)
C8_NoSharedParams ==
  [][/\ \A i, j \in DOMAIN sessions' : i # j => sessions'[i].p # sessions'[j].p
     /\ \A i \in SessionIds :
          (sessions[i].running /\ sessions[i].pending > 0)
            => params'[sessions[i].p] = params[sessions[i].p]]_vars

(* C9: after the Reset button handler the active Session's parameters are  *)
(* the values the sliders had set before the click.                        *)
C9_ResetKeepsSliderValues ==
  [][ResetBtnClick =>
       params'[sessions'[active'].p] = params[sessions[active].p]]_vars

(* C10: the trace of a circular Session never holds more than 120 entries. *)
C10_TraceBounded ==
  \A i \in SessionIds :
    sessions[i].kind = "circular" => Len(sessions[i].st.trace) <= maxTrace

(* A circular Session whose trace is full and has dropped the point of its *)
(* first tick.                                                             *)
C10_Witness ==
  \E i \in SessionIds :
    /\ sessions[i].kind = "circular"
    /\ Len(sessions[i].st.trace) = maxTrace
    /\ sessions[i].st.trace[1].angle > params[sessions[i].p].angularSpeed * dtMs
    /\ sessions[i].st.trace[maxTrace].angle = sessions[i].st.angle

(* C11: the trace is a FIFO: it holds the last min(n, 120) of the n points  *)
(* drawn, oldest first.  With ticks numbered from 0, after 200 ticks of a  *)
(* fresh circular Session the trace has 120 entries and its oldest entry   *)
(* is the point of tick 80, the 81st point drawn.                          *)
C11_TraceIsFifo ==
  \A i \in SessionIds :
    sessions[i].kind = "circular" =>
      LET h == sessions[i].st.hist
          t == sessions[i].st.trace
          n == Len(h)
          k == Min(n, maxTrace)
      IN /\ Len(t) = k
         /\ \A j \in 1..k : t[j] = h[n - k + j]
         /\ (n = 200 /\ h[1].angle # 0) => (Len(t) = 120 /\ t[1] = h[81])

(* A fresh circular Session after exactly 200 ticks with the preset        *)
(* parameters: 120 entries, the oldest drawn at angle 81 * 1.2 * 0.016.    *)
C11_Witness ==
  \E i \in SessionIds :
    /\ sessions[i].kind = "circular"
    /\ Len(sessions[i].st.hist) = 200
    /\ sessions[i].st.hist[1].angle = 120 * dtMs
    /\ Len(sessions[i].st.trace) = maxTrace
    /\ sessions[i].st.trace[1].angle = 81 * 120 * dtMs
    /\ sessions[i].st.trace[maxTrace].angle = 200 * 120 * dtMs

(* C12: the live resolver clamps the restitution: a tick with a supplied    *)
(* e > 1 leaves exactly the state a tick with e = 1 leaves, and one with a  *)
(* supplied e < 0 exactly the state a tick with e = 0 leaves.               *)
C12_RestitutionClamped ==
  [][AnimationFrame =>
       \A i \in SessionIds :
         sessions[i].kind = "collision" =>
           LET P == params[sessions[i].p]
               e01 == IF P.e > 100 THEN 100 ELSE IF P.e < 0 THEN 0 ELSE P.e
           IN sessions'[i].st = update(sessions[i].st, [P EXCEPT !.e = e01])]_vars

(* A pair resolved under a supplied e = 1.5 that came out separating. *)
C12_Witness ==
  \E i \in SessionIds :
    /\ sessions[i].kind = "collision"
    /\ sessions[i].st.hit /\ ~sessions[i].st.nan
    /\ params[sessions[i].p].e > 100
    /\ sessions[i].st.ball2.vx - sessions[i].st.ball1.vx > 0

(* The live half of C13: a head-on pair (centers on a horizontal line)     *)
(* resolved with e = 0 leaves both balls with one normal velocity.         *)
InelasticLive ==
  \A i \in SessionIds :
    (/\ sessions[i].kind = "collision"
     /\ sessions[i].st.hit /\ ~sessions[i].st.nan
     /\ restitution(params[sessions[i].p]) = 0
     /\ sessions[i].st.ball1.y = sessions[i].st.ball2.y)
      => sessions[i].st.ball1.vx = sessions[i].st.ball2.vx

(* The query's e is a string of the number 0. *)
QueryZero(name) ==
  /\ name \in DOMAIN chart.query
  /\ chart.query[name].whole = 0
  /\ chart.query[name].frac = 0

(* C13: with e = 0 both bodies leave the collision with the common         *)
(* velocity (m1*u1 + m2*u2)/(m1 + m2), in the live resolver and on the     *)
(* analytic page opened with e = 0.                                        *)
C13_InelasticCommonVelocity ==
  /\ InelasticLive
  /\ (chart.sim = "collision" /\ QueryZero("e")) =>
       LET P == params[Len(params)]
           common == RoundDiv((P.m1 * P.v1 + P.m2 * P.v2) * pxScale * 10, P.m1 + P.m2)
       IN /\ chart.used.v1p = chart.used.v2p
          /\ chart.used.v1p = common

(* Fixed-point tolerance of C14: every product with the normal and every   *)
(* division rounds to the nearest unit, at most 4 units per velocity.      *)
VelTol == 4

Momentum(st) ==
  [x |-> st.ball1.m * st.ball1.vx + st.ball2.m * st.ball2.vx,
   y |-> st.ball1.m * st.ball1.vy + st.ball2.m * st.ball2.vy]

KineticEnergy2(st) ==
  st.ball1.m * (st.ball1.vx * st.ball1.vx + st.ball1.vy * st.ball1.vy)
    + st.ball2.m * (st.ball2.vx * st.ball2.vx + st.ball2.vy * st.ball2.vy)

MaxSpeed(st) ==
  Max(Max(Abs(st.ball1.vx), Abs(st.ball1.vy)), Max(Abs(st.ball2.vx), Abs(st.ball2.vy)))

(* What C14 says of one resolution: pre is the state at the pair check,    *)
(* post the state after it, e the restitution used.                        *)
Conserves(pre, post, e) ==
  LET dist == centerDist(pre)
      a == pre.ball1
      b == pre.ball2
      pr == projections(pre, dist)
      po == projections([pre EXCEPT !.ball1.vx = post.ball1.vx, !.ball1.vy = post.ball1.vy,
                                    !.ball2.vx = post.ball2.vx, !.ball2.vy = post.ball2.vy],
                        dist)
      N1 == normalNum1(a.m, b.m, e, pr.v1n, pr.v2n)
      N2 == normalNum2(a.m, b.m, e, pr.v1n, pr.v2n)
      D == normalDen(a.m, b.m)
  IN /\ a.m * N1 + b.m * N2 = D * (a.m * pr.v1n + b.m * pr.v2n)
     /\ Abs(Momentum(post).x - Momentum(pre).x) <= VelTol * (a.m + b.m)
     /\ Abs(Momentum(post).y - Momentum(pre).y) <= VelTol * (a.m + b.m)
     /\ Abs(po.v1t - pr.v1t) <= VelTol
     /\ Abs(po.v2t - pr.v2t) <= VelTol
     /\ e = 100 =>
          /\ N2 - N1 = D * (pr.v1n - pr.v2n)
          /\ Abs((po.v2n - po.v1n) + (pr.v2n - pr.v1n)) <= 2 * VelTol
          /\ Abs(KineticEnergy2(post) - KineticEnergy2(pre))
               <= 2 * VelTol * (a.m + b.m) * (MaxSpeed(pre) + VelTol)

(* C14: every pair resolution conserves the total momentum (tangential     *)
(* components unchanged) for every e in [0,1]; with e = 1 it also          *)
(* conserves the kinetic energy and negates the relative normal velocity.  *)
C14_MomentumConserved ==
  [][AnimationFrame =>
       \A i \in SessionIds :
         (/\ sessions[i].kind = "collision"
          /\ sessions'[i].st.hit /\ ~sessions'[i].st.nan
          /\ params[sessions[i].p].e \in 0..100)
           => Conserves(afterWalls(sessions[i].st), sessions'[i].st,
                        params[sessions[i].p].e)]_vars

(* An oblique elastic pair of unequal masses that exchanged momentum. *)
C14_Witness ==
  \E i \in SessionIds :
    /\ sessions[i].kind = "collision"
    /\ sessions[i].st.hit /\ ~sessions[i].st.nan
    /\ params[sessions[i].p].e = 100
    /\ sessions[i].st.ball1.m # sessions[i].st.ball2.m
    /\ sessions[i].st.ball2.y - sessions[i].st.ball1.y > 15200
    /\ sessions[i].st.ball2.vy # 0

(* The normal velocities the live resolver computes for a head-on pair     *)
(* (nx = 1) with the masses, velocities and restitution of P.              *)
LiveHeadOn(P) ==
  [v1p |-> RoundDiv(normalNum1(P.m1, P.m2, restitution(P),
                               P.v1 * pxScale * 10, P.v2 * pxScale * 10),
                    normalDen(P.m1, P.m2)),
   v2p |-> RoundDiv(normalNum2(P.m1, P.m2, restitution(P),
                               P.v1 * pxScale * 10, P.v2 * pxScale * 10),
                    normalDen(P.m1, P.m2))]

(* C15: the final velocities of the analytic collision page are those the  *)
(* live resolver computes head-on from the values the Session has.         *)
C15_AnalyticAgreesWithLive ==
  chart.sim = "collision" =>
    /\ chart.used.v1p = LiveHeadOn(params[Len(params)]).v1p
    /\ chart.used.v2p = LiveHeadOn(params[Len(params)]).v2p

(* C16: the analytic page evaluates every parameter the query carries as a *)
(* numeric string with its parsed value, the value the live Session has.   *)
C16_HandoffUsesParsedValues ==
  LET P == params[Len(params)]
      u == chart.used
  IN /\ chart.sim = "projectile" => (u.u = P.speed /\ u.a = P.angle)
     /\ chart.sim = "pendulum" => u.L = P.length
     /\ chart.sim = "spring" => u.k = P.k
     /\ chart.sim = "circular" => (u.radius = P.radius /\ u.omega = P.angularSpeed)
     /\ chart.sim = "collision" =>
          (u.m1 = P.m1 /\ u.m2 = P.m2 /\ u.u1 = P.v1 /\ u.u2 = P.v2 /\ u.e = P.e)
     /\ chart.sim = "electric" => (u.q1 = P.q1 /\ u.q2 = P.q2)

(* C17: the resolver never divides by zero: also when the two centers      *)
(* coincide at the pair check, every position and velocity is a number     *)
(* after the tick.                                                         *)
C17_NoDivisionByZero ==
  \A i \in SessionIds :
    sessions[i].kind = "collision" => ~sessions[i].st.nan

(* r <= x <= W - r and r <= y <= H - r *)
InsideArena(b) ==
  /\ b.r <= b.x /\ b.x <= CanvasW * 500 - b.r
  /\ b.r <= b.y /\ b.y <= CanvasH * 500 - b.r

(* C18: at the end of every collision tick both balls lie entirely inside  *)
(* the arena.                                                              *)
C18_InsideArena ==
  [][AnimationFrame =>
       \A i \in SessionIds :
         (sessions[i].kind = "collision" /\ ~sessions'[i].st.nan)
           => (InsideArena(sessions'[i].st.ball1) /\ InsideArena(sessions'[i].st.ball2))]_vars

(* One fixed-point unit (1/500 px): Math.hypot and the two halves of the   *)
(* correction are each rounded to the nearest unit.                        *)
DistTol == 1

(* C19: a tick whose pair check finds 0 < d <= r1 + r2 ends with the       *)
(* centers r1 + r2 apart, and no tick ends with the balls interpenetrating.*)
C19_NoInterpenetration ==
  [][AnimationFrame =>
       \A i \in SessionIds :
         (sessions[i].kind = "collision" /\ ~sessions'[i].st.nan) =>
           LET st == sessions'[i].st
               rsum == st.ball1.r + st.ball2.r
           IN /\ centerDist(st) >= rsum - DistTol
              /\ st.hit => centerDist(st) <= rsum + DistTol]_vars

(* A pair found overlapping along an oblique normal and pushed apart. *)
C19_Witness ==
  \E i \in SessionIds :
    /\ sessions[i].kind = "collision"
    /\ sessions[i].st.hit /\ ~sessions[i].st.nan
    /\ sessions[i].st.ball2.x - sessions[i].st.ball1.x = 12000
    /\ sessions[i].st.ball2.y - sessions[i].st.ball1.y = 16000

(* C20: an electric Session holds exactly two sources, and when the active *)
(* one has just been constructed (which runs start()), started or reset,   *)
(* their charges are q1 and q2 of its ParameterSet.                        *)
C20_ChargesFollowParams ==
  /\ \A i \in SessionIds :
       sessions[i].kind = "electric" => Len(sessions[i].st.charges) = 2
  /\ (/\ active # 0
      /\ sessions[active].kind = "electric"
      /\ sessions[active].lastOp \in {"new", "start", "reset"})
       => /\ sessions[active].st.charges[1].q = params[sessions[active].p].q1
          /\ sessions[active].st.charges[2].q = params[sessions[active].p].q2

(* Sessions a run under SpecFair can create: the first one and one for    *)
(* every UI event.                                                         *)
FairSessionIds == 1..(1 + FairUIOps)

(* What one frame does to a running Session with n callbacks queued: each  *)
(* callback advances the state by one step of dt = 0.016 and requests one  *)
(* frame, so n callbacks are queued again and running stays true.          *)
TicksOnce(s, t, P) ==
  LET n == s.pending
  IN /\ t.running
     /\ t.pending = n
     /\ t.lastOp = "tick"
     /\ s.kind \in {"projectile", "pendulum", "spring"} => t.st.t = s.st.t + n * dtMs
     /\ s.kind = "circular" =>
          /\ t.st.angle = s.st.angle + n * P.angularSpeed * dtMs
          /\ Len(t.st.hist) = Len(s.st.hist) + n
     /\ s.kind = "collision" => t.st = stepTimes(s, P, n).st
     /\ s.kind = "electric" => t.st = s.st

(* Session i exists and is running with k frames of the run left. *)
DueAt(i, k) ==
  IF i \in SessionIds THEN sessions[i].running /\ budget.frames = k ELSE FALSE

(* A later frame has run and Session i, still running, ticked in it; or    *)
(* the Session has been paused.                                            *)
TickedSince(i, k) ==
  IF i \in SessionIds
    THEN \/ ~sessions[i].running
         \/ budget.frames < k /\ sessions[i].lastOp = "tick"
    ELSE FALSE

(* C21: a running Session keeps ticking: every frame steps it once per     *)
(* queued callback and queues as many again, and under a fair frame        *)
(* scheduler a frame that is due is followed by a later one unless the     *)
(* Session is paused or the page is left for graph.html.                   *)
C21_RunningKeepsTicking ==
  /\ [][AnimationFrame =>
          \A i \in SessionIds :
            (sessions[i].running /\ sessions[i].pending > 0)
              => TicksOnce(sessions[i], sessions'[i], params[sessions[i].p])]_vars
  /\ \A i \in FairSessionIds : \A k \in 1..FairFrames :
       DueAt(i, k) ~> (TickedSince(i, k) \/ chart.sim # "none")

(* A projectile Session that was never paused or reset and has ticked at   *)
(* every frame of the run.                                                 *)
C21_Witness ==
  \E i \in SessionIds :
    /\ sessions[i].kind = "projectile"
    /\ sessions[i].running /\ sessions[i].pending = 1
    /\ sessions[i].lastOp = "tick"
    /\ budget.frames = 0
    /\ sessions[i].st.t = FairFrames * dtMs

(* C22: the Pause/Resume button reads 'Resume' exactly when the active     *)
(* Session is paused, and a click on 'Resume' never calls start() on a     *)
(* Session that is running.                                                *)
C22_LabelMatchesActive ==
  [][/\ active # 0 => (pauseLabel = "Resume" <=> ~sessions[active].running)
     /\ (PauseBtnClick /\ pauseLabel = "Resume") => ~sessions[active].running]_vars

(* The wall handling of one ball that integration has left at m: where it  *)
(* clamps the ball at an edge, the inverted velocity component points into *)
(* the arena or is zero.                                                   *)
ReflectsInward(m) ==
  LET w == wallBounce(m)
  IN /\ m.x - m.r < 0 => w.vx >= 0
     /\ m.x + m.r > CanvasW * 500 => w.vx <= 0
     /\ m.y - m.r < 0 => w.vy >= 0
     /\ m.y + m.r > CanvasH * 500 => w.vy <= 0

(* C23: whenever the wall handling of a collision tick clamps a ball at an *)
(* edge, the velocity it leaves the ball with points into the arena.       *)
C23_WallReflectsInward ==
  [][AnimationFrame =>
       \A i \in SessionIds :
         (/\ sessions[i].kind = "collision"
          /\ sessions[i].running /\ sessions[i].pending > 0
          /\ ~sessions[i].st.nan)
           => /\ ReflectsInward(integrate(sessions[i].st.ball1))
              /\ ReflectsInward(integrate(sessions[i].st.ball2))]_vars

(* v2n' - v1n': the relative velocity of the two balls along the collision *)
(* normal found at the pair check of state pre, with the velocities that   *)
(* state post has.                                                         *)
RelativeNormalVelocity(pre, post) ==
  LET po == projections([pre EXCEPT !.ball1.vx = post.ball1.vx, !.ball1.vy = post.ball1.vy,
                                    !.ball2.vx = post.ball2.vx, !.ball2.vy = post.ball2.vy],
                        centerDist(pre))
  IN po.v2n - po.v1n

(* C24: after a pair resolution the two balls are not approaching each     *)
(* other along the collision normal (up to the rounding of the model).     *)
C24_NotApproachingAfter ==
  [][AnimationFrame =>
       \A i \in SessionIds :
         (/\ sessions[i].kind = "collision"
          /\ sessions[i].running /\ sessions[i].pending = 1
          /\ sessions'[i].st.hit /\ ~sessions'[i].st.nan)
           => RelativeNormalVelocity(afterWalls(sessions[i].st), sessions'[i].st)
                >= -2 * VelTol]_vars


====
